---- MODULE Spec2Model ----
(***************************************************************************)
(* Image service of crius (src/src/image/mod.rs) with the part of main     *)
(* that rehydrates the index before serving (src/src/main.rs).             *)
(*                                                                         *)
(* Strings are sequences of one-character strings so that starts_with,     *)
(* replace and slicing are computed as the code computes them.             *)
(***************************************************************************)
EXTENDS Naturals, Sequences, FiniteSets, TLC

\* ------------------------------------------------------------------ bounds

\* Number of gRPC calls that can be in flight at once.
NumCalls == 2

\* Number of layers of the larger registry image.
NumLayers == 2

\* ------------------------------------------------------------------ strings

\* Option<T>: the empty tuple is None, a one-element tuple is Some.
None == <<>>
Some(x) == <<x>>
IsSome(o) == Len(o) = 1
Unwrap(o) == o[1]

\* The slice [..12] of pull_image: hex characters kept in the identifier.
IdHexLen == 12

Sha256Scheme == <<"s","h","a","2","5","6",":">>

EmptyStr == <<>>

\* Manifest digests the registry can answer with (hex part abbreviated to 14).
DigestA == Sha256Scheme \o <<"a","b","c","1","2","3","0","0","0","0","0","0","e","f">>
DigestB == Sha256Scheme \o <<"a","b","c","9","9","9","0","0","0","0","0","0","e","f">>

\* Image references a client can send.
TagT == <<"t",":","1">>
TagS == <<"s","h","a","2","5","6">>

\* Further strings a client can send to ImageStatus and RemoveImage.
PrefixFull  == Sha256Scheme \o <<"a","b","c","1">>
PrefixAmbig == Sha256Scheme \o <<"a","b","c">>
PrefixHex   == <<"a","b","c","1">>

StartsWith(s, p) == Len(p) <= Len(s) /\ SubSeq(s, 1, Len(p)) = p

\* str::replace(pat, ""): every non-overlapping occurrence, left to right.
RECURSIVE RemoveAll(_, _)
RemoveAll(s, pat) ==
    IF Len(s) < Len(pat) THEN s
    ELSE IF SubSeq(s, 1, Len(pat)) = pat
         THEN RemoveAll(SubSeq(s, Len(pat) + 1, Len(s)), pat)
         ELSE <<Head(s)>> \o RemoveAll(Tail(s), pat)

\* The slice panics when the stripped digest is shorter than the slice.
DigestSliceable(digest) == Len(RemoveAll(digest, Sha256Scheme)) >= IdHexLen

\* An identifier cut from the digest with its scheme prefix still in place.
ImageIdNoStrip(digest) == Sha256Scheme \o SubSeq(digest, 1, IdHexLen)

ImageId(digest) ==
    Sha256Scheme \o SubSeq(RemoveAll(digest, Sha256Scheme), 1, IdHexLen)

\* Characters of the reference grammar that the inputs use.
RefChars == {"s","h","a","t","2","5","6","1",":","/",".","-","_"}

\* A parser that accepts every string.
ParseReferenceAny(s) == TRUE

\* image_spec.image.parse::<Reference>() succeeds.
ParseReference(s) == Len(s) > 0 /\ \A n \in 1..Len(s) : s[n] \in RefChars

\* ------------------------------------------------------------------ registry

LayerData(name, k) == [n \in 1..k |-> <<name, n - 1>>]

\* ImageData that client.pull can answer with: its digest and its layers.
ImageA == [digest |-> Some(DigestA), layers |-> LayerData("a", NumLayers)]
ImageB == [digest |-> Some(DigestB), layers |-> LayerData("b", 1)]
ImageN == [digest |-> None,          layers |-> LayerData("n", 1)]

\* What the registry holds under a reference at one time or another.
Registry(ref) == IF ref = TagT THEN {ImageA, ImageN} ELSE {ImageA, ImageB}

\* Further answers of client.pull: a digest that shares its first 12 hex
\* characters with DigestA, the digest of a third image with and without the
\* scheme prefix, and a digest too short for the slice.
DigestA2    == Sha256Scheme \o <<"a","b","c","1","2","3","0","0","0","0","0","0","a","a">>
HexD        == <<"d","e","a","d","b","e","e","f","c","a","f","e","f","0","0","d">>
DigestD     == Sha256Scheme \o HexD
DigestShort == Sha256Scheme \o <<"a","b","c">>

ImageA2    == [digest |-> Some(DigestA2),    layers |-> LayerData("c", 1)]
ImageD     == [digest |-> Some(DigestD),     layers |-> LayerData("d", 1)]
ImageU     == [digest |-> Some(HexD),        layers |-> LayerData("d", 1)]
ImageShort == [digest |-> Some(DigestShort), layers |-> LayerData("e", 1)]

\* What a registry with these images holds under any reference.
RegistryAll == {ImageA, ImageA2, ImageD, ImageU, ImageShort}

\* ------------------------------------------------------------------ inputs

Calls == 1..NumCalls

\* req.image of a request: None, or Some(ImageSpec.image).
PullInputs   == {None} \cup {Some(s) : s \in {EmptyStr, TagT, TagS}}
StatusInputs == {None} \cup {Some(s) : s \in {TagT, TagS, PrefixFull,
                                              PrefixAmbig, PrefixHex}}
RemoveInputs == {None} \cup {Some(s) : s \in {TagT, TagS}}

\* req.auth of a PullImageRequest: None, or Some(AuthConfig).
AuthInputs == {None, Some([username |-> <<"u">>, password |-> <<"p">>])}

\* ------------------------------------------------------------------ state

VARIABLES
    phase,        \* "loading" (main runs load_local_images), "loaded" (main
                  \* builds the server), "serving", "exited"
    images,       \* ImageServiceImpl.images: reference string -> Image
    clientLock,   \* the calls holding the oci_client mutex (none or one)
    disk,         \* <storage>/images: identifier -> directory entry
    calls,        \* the in-flight gRPC calls
    interrupted   \* identifiers whose pull the last termination cut between
                  \* its first layer write and the end of its metadata write

vars == <<phase, images, clientLock, disk, calls, interrupted>>

EmptyMap == [x \in {} |-> x]

\* proto Image as pull_image and load_local_images build it.
Image(id, repo_tags, size) == [id |-> id, repo_tags |-> repo_tags, size |-> size]

\* CriusImage / ImageMeta as serialized to metadata.json.
ImageMeta(id, repo_tags, size) == [id |-> id, repo_tags |-> repo_tags, size |-> size]

\* A file: absent, truncated or partly written, or holding its content.
NoFile        == [state |-> "absent",  content |-> None]
PartialFile   == [state |-> "partial", content |-> None]
FileOf(bytes) == [state |-> "written", content |-> Some(bytes)]

\* A fresh directory <storage>/images/<id>; layers[n + 1] is <n>.tar.gz.
NewDir == [kind |-> "dir", layers |-> <<>>, meta |-> NoFile]

\* A call: its request (op, image, auth), its position pc, its locals (of
\* list_images: the keys its iterator has passed and the images collected),
\* the RegistryAuth it handed to client.pull (registry_auth) and its answer.
Idle == [op |-> "none", pc |-> "idle", image |-> None, auth |-> None,
         registry_auth |-> None, data |-> None,
         image_id |-> EmptyStr, i |-> 0, seen |-> {}, images_list |-> EmptyMap,
         result |-> [status |-> "none", value |-> None]]

\* oci_distribution::secrets::RegistryAuth
Anonymous == [kind |-> "Anonymous", username |-> EmptyStr, password |-> EmptyStr]
Basic(username, password) ==
    [kind |-> "Basic", username |-> username, password |-> password]

Ok(v)           == [status |-> "Ok", value |-> Some(v)]
InvalidArgument == [status |-> "InvalidArgument", value |-> None]
NotFound        == [status |-> "NotFound", value |-> None]
Internal        == [status |-> "Internal", value |-> None]
Panicked        == [status |-> "panic", value |-> None]

Range(f) == {f[k] : k \in DOMAIN f}

MapPut(m, k, v) == [x \in DOMAIN m \cup {k} |-> IF x = k THEN v ELSE m[x]]

MapDel(m, k) == [x \in DOMAIN m \ {k} |-> m[x]]

Init ==
    /\ phase = "loading"
    /\ images = EmptyMap
    /\ clientLock = {}
    /\ disk = EmptyMap
    /\ calls = [c \in Calls |-> Idle]
    /\ interrupted = {}

\* ------------------------------------------------------------------ startup

\* entry.path().join("metadata.json").exists()
MetaExists(dir) == dir.meta.state # "absent"

\* A check of the entry's kind that accepts image directories.
IsFileAcceptsDir(dir) == dir.kind \in {"file", "dir"}

\* path.is_file() on the entry of the images directory.
IsFile(dir) == dir.kind = "file"

\* The entries of read_dir whose metadata load_local_images reads.
MetaRead(d) == {id \in DOMAIN d : MetaExists(d[id])}

\* serde_json::from_slice fails on a truncated document.
MetaParses(dir) == dir.meta.state = "written"

\* The entries load_local_images inserts: metadata parsed and path.is_file().
Inserted(d) == {id \in MetaRead(d) : MetaParses(d[id]) /\ IsFile(d[id])}

ImageOfMeta(meta) == Image(meta.id, meta.repo_tags, meta.size)

TagsOf(meta) == {meta.repo_tags[n] : n \in 1..Len(meta.repo_tags)}

\* The indexes load_local_images can leave when it returns Ok: every tag of
\* an inserted entry is a key, and holds the image of the entry that read_dir
\* yielded last among those carrying the tag (read_dir's order is arbitrary).
LoadOutcomes(d) ==
    LET metas == {Unwrap(d[id].meta.content) : id \in Inserted(d)}
        tags  == UNION {TagsOf(m) : m \in metas}
    IN  {ix \in [tags -> {ImageOfMeta(m) : m \in metas}] :
            \A t \in tags : \E m \in metas : t \in TagsOf(m) /\ ix[t] = ImageOfMeta(m)}

\* The indexes load_local_images can leave when it runs on index ix.
LoadInto(ix, d) ==
    {[k \in DOMAIN ix \cup DOMAIN o |-> IF k \in DOMAIN o THEN o[k] ELSE ix[k]] :
        o \in LoadOutcomes(d)}

\* main: load_local_images().await? returns Ok.
LoadLocalImagesOk ==
    /\ phase = "loading"
    /\ \A id \in MetaRead(disk) : MetaParses(disk[id])
    /\ images' \in LoadInto(images, disk)
    /\ phase' = "loaded"
    /\ UNCHANGED <<clientLock, disk, calls, interrupted>>

\* A main that starts accepting requests without waiting for
\* load_local_images.
ServeBeforeLoad ==
    /\ phase \in {"loading", "loaded"}
    /\ phase' = "serving"
    /\ interrupted' = {}
    /\ UNCHANGED <<images, clientLock, disk, calls>>

\* main: the server is built and serve(..) starts accepting requests.
Serve ==
    /\ phase = "loaded"
    /\ phase' = "serving"
    /\ interrupted' = {}
    /\ UNCHANGED <<images, clientLock, disk, calls>>

\* main: load_local_images fails (read_dir, an entry or a metadata.json cannot
\* be read, or a metadata.json does not parse) and `?` ends the process
\* before the server is built.
LoadLocalImagesErr ==
    /\ phase = "loading"
    /\ DOMAIN disk # {}
    /\ phase' = "exited"
    /\ UNCHANGED <<images, clientLock, disk, calls, interrupted>>

\* The pulls a termination cuts after a layer write and before the end of the
\* metadata write.
CutPulls ==
    {c \in Calls : \/ calls[c].pc \in {"pull_meta_open", "pull_meta_write"}
                   \/ /\ calls[c].pc \in {"pull_layer_open", "pull_layer_write"}
                      /\ calls[c].i >= 1}

\* The process is terminated: memory is lost, the disk stays.
Terminate ==
    /\ phase \in {"loaded", "serving"}
    /\ phase' = "exited"
    /\ interrupted' = {calls[c].image_id : c \in CutPulls}
    /\ images' = EmptyMap
    /\ clientLock' = {}
    /\ calls' = [c \in Calls |-> Idle]
    /\ UNCHANGED disk

\* The process is started again: ImageServiceImpl::new, then main loads.
Restart ==
    /\ phase = "exited"
    /\ phase' = "loading"
    /\ UNCHANGED <<images, clientLock, disk, calls, interrupted>>

\* ------------------------------------------------------------------ calls

\* A request arrives and its handler runs up to the step pc.
Begin(c, op, image, pc) ==
    [Idle EXCEPT !.op = op, !.image = image, !.pc = pc]

\* The handler returns: its locals are dropped, its answer is kept.
Finish(c, res) ==
    [calls EXCEPT ![c] = [Idle EXCEPT !.op = calls[c].op, !.image = calls[c].image,
                                      !.pc = "done", !.result = res]]

\* The response has been sent; the task of the call is gone.
Return(c) ==
    /\ phase = "serving"
    /\ calls[c].pc = "done"
    /\ calls' = [calls EXCEPT ![c] = Idle]
    /\ UNCHANGED <<phase, images, clientLock, disk, interrupted>>

\* ------------------------------------------------------------------ list_images

\* Every handler takes the images mutex with self.images.lock().await and
\* never awaits while it holds the guard, so what a handler does under the
\* guard is one step; the steps of different calls exclude each other.

\* An images mutex that excludes nobody.
NoImagesLock == TRUE

\* No call holds the guard of self.images: the calls that hold it across
\* several steps are those collecting the values for list_images.
ImagesLockFree == \A c \in Calls : calls[c].pc # "list_collect"

\* images.values().cloned().collect(): each image with its number of keys.
Values(ix) ==
    [img \in Range(ix) |-> Cardinality({k \in DOMAIN ix : ix[k] = img})]

ListImages(c) ==
    /\ phase = "serving"
    /\ calls[c].pc = "idle"
    /\ ImagesLockFree
    /\ calls' = [calls EXCEPT ![c] =
                    [Begin(c, "list_images", None, "done")
                        EXCEPT !.result = Ok(Values(images))]]
    /\ UNCHANGED <<phase, images, clientLock, disk, interrupted>>

\* ------------------------------------------------------------------ image_status

\* image_status without the scan of the identifiers.
ImageStatusResultsExactOnly(ix, ref) ==
    IF ref \in DOMAIN ix THEN {Ok(ix[ref])} ELSE {NotFound}

\* What image_status answers for image_spec.image = ref under index ix. The
\* scan of images.values() follows the hash map's arbitrary order, so every
\* record whose id starts with ref is a possible answer.
ImageStatusResults(ix, ref) ==
    IF ref \in DOMAIN ix
    THEN {Ok(ix[ref])}
    ELSE LET hits == {img \in Range(ix) : StartsWith(img.id, ref)}
         IN  IF hits # {} THEN {Ok(img) : img \in hits} ELSE {NotFound}

\* list_images step by step: let images = self.images.lock().await
ListImagesLock(c) ==
    /\ phase = "serving"
    /\ calls[c].pc = "idle"
    /\ ImagesLockFree
    /\ calls' = [calls EXCEPT ![c] = Begin(c, "list_images", None, "list_collect")]
    /\ UNCHANGED <<phase, images, clientLock, disk, interrupted>>

\* list_images is called and reaches self.images.lock().await.
ListImagesCall(c) ==
    /\ phase = "serving"
    /\ calls[c].pc = "idle"
    /\ calls' = [calls EXCEPT ![c] = Begin(c, "list_images", None, "list_lock")]
    /\ UNCHANGED <<phase, images, clientLock, disk, interrupted>>

\* The waiting list_images is given the images mutex.
ListImagesLocked(c) ==
    /\ phase = "serving"
    /\ calls[c].pc = "list_lock"
    /\ ImagesLockFree
    /\ calls' = [calls EXCEPT ![c].pc = "list_collect"]
    /\ UNCHANGED <<phase, images, clientLock, disk, interrupted>>

\* A collected list with one more clone of img.
Collect(list, img) ==
    [x \in DOMAIN list \cup {img} |->
        IF x # img THEN list[x] ELSE IF img \in DOMAIN list THEN list[img] + 1 ELSE 1]

\* images.values().cloned().collect(): the iterator yields the value of one
\* more key, in the hash map's order, and the value is cloned into the list.
ListImagesCollect(c) ==
    /\ phase = "serving"
    /\ calls[c].pc = "list_collect"
    /\ \E k \in DOMAIN images \ calls[c].seen :
          calls' = [calls EXCEPT ![c].seen = @ \cup {k},
                                 ![c].images_list = Collect(@, images[k])]
    /\ UNCHANGED <<phase, images, clientLock, disk, interrupted>>

\* The iterator is exhausted: the response is built and the guard dropped.
ListImagesReturn(c) ==
    /\ phase = "serving"
    /\ calls[c].pc = "list_collect"
    /\ DOMAIN images \ calls[c].seen = {}
    /\ calls' = Finish(c, Ok(calls[c].images_list))
    /\ UNCHANGED <<phase, images, clientLock, disk, interrupted>>

\* An image_status that remembers the record it found under the reference
\* it was asked for.
ImageStatusCaching(c) ==
    /\ phase = "serving"
    /\ calls[c].pc = "idle"
    /\ ImagesLockFree
    /\ \E image \in StatusInputs :
         \E res \in IF IsSome(image) THEN ImageStatusResults(images, Unwrap(image))
                                     ELSE {InvalidArgument} :
            /\ calls' = [calls EXCEPT ![c] =
                            [Begin(c, "image_status", image, "done") EXCEPT !.result = res]]
            /\ images' = IF res.status = "Ok"
                          THEN MapPut(images, Unwrap(image), Unwrap(res.value))
                          ELSE images
    /\ UNCHANGED <<phase, clientLock, disk, interrupted>>

ImageStatus(c) ==
    /\ phase = "serving"
    /\ calls[c].pc = "idle"
    /\ ImagesLockFree
    /\ \E image \in StatusInputs :
         \E res \in IF IsSome(image) THEN ImageStatusResults(images, Unwrap(image))
                                     ELSE {InvalidArgument} :
            calls' = [calls EXCEPT ![c] =
                         [Begin(c, "image_status", image, "done") EXCEPT !.result = res]]
    /\ UNCHANGED <<phase, images, clientLock, disk, interrupted>>

\* image_status is called: a request without image spec is answered before
\* the lock; otherwise the call reaches self.images.lock().await.
ImageStatusCall(c) ==
    /\ phase = "serving"
    /\ calls[c].pc = "idle"
    /\ \E image \in StatusInputs :
          calls' = [calls EXCEPT ![c] =
                       IF IsSome(image)
                       THEN Begin(c, "image_status", image, "status_lock")
                       ELSE [Begin(c, "image_status", image, "done")
                                EXCEPT !.result = InvalidArgument]]
    /\ UNCHANGED <<phase, images, clientLock, disk, interrupted>>

\* The waiting image_status is given the images mutex, looks the reference
\* up and returns.
ImageStatusLocked(c) ==
    /\ phase = "serving"
    /\ calls[c].pc = "status_lock"
    /\ ImagesLockFree
    /\ \E res \in ImageStatusResults(images, Unwrap(calls[c].image)) :
          calls' = Finish(c, res)
    /\ UNCHANGED <<phase, images, clientLock, disk, interrupted>>

\* ------------------------------------------------------------------ remove_image

\* remove_image answering Ok whether or not the key was present.
RemoveResultAlwaysOk(ix, key) == Ok(None)

\* images.remove(&key).is_some()
RemoveResult(ix, key) == IF key \in DOMAIN ix THEN Ok(None) ELSE NotFound

\* A removal that drops every entry carrying the identifier of the key's image.
RemoveIndexById(ix, key) ==
    IF key \in DOMAIN ix
    THEN [k \in {x \in DOMAIN ix : ix[x].id # ix[key].id} |-> ix[k]]
    ELSE ix

\* The index after images.remove(&key).
RemoveIndex(ix, key) == MapDel(ix, key)

\* req.image.unwrap() panics on a request without image spec; unwinding
\* drops the guard of the images mutex.
RemoveImage(c) ==
    /\ phase = "serving"
    /\ calls[c].pc = "idle"
    /\ ImagesLockFree
    /\ \E image \in RemoveInputs :
          IF IsSome(image)
          THEN /\ images' = RemoveIndex(images, Unwrap(image))
               /\ calls' = [calls EXCEPT ![c] =
                               [Begin(c, "remove_image", image, "done")
                                   EXCEPT !.result = RemoveResult(images, Unwrap(image))]]
          ELSE /\ images' = images
               /\ calls' = [calls EXCEPT ![c] =
                               [Begin(c, "remove_image", image, "done")
                                   EXCEPT !.result = Panicked]]
    /\ UNCHANGED <<phase, clientLock, disk, interrupted>>

\* remove_image is called and reaches self.images.lock().await.
RemoveImageCall(c) ==
    /\ phase = "serving"
    /\ calls[c].pc = "idle"
    /\ \E image \in RemoveInputs :
          calls' = [calls EXCEPT ![c] = Begin(c, "remove_image", image, "remove_lock")]
    /\ UNCHANGED <<phase, images, clientLock, disk, interrupted>>

\* The waiting remove_image is given the images mutex, unwraps the image
\* spec (a panic drops the guard), removes the key and returns.
RemoveImageLocked(c) ==
    /\ phase = "serving"
    /\ calls[c].pc = "remove_lock"
    /\ ImagesLockFree
    /\ IF IsSome(calls[c].image)
       THEN /\ images' = RemoveIndex(images, Unwrap(calls[c].image))
            /\ calls' = Finish(c, RemoveResult(images, Unwrap(calls[c].image)))
       ELSE /\ images' = images
            /\ calls' = Finish(c, Panicked)
    /\ UNCHANGED <<phase, clientLock, disk, interrupted>>

\* ------------------------------------------------------------------ image_fs_info

ImageFsInfo(c) ==
    /\ phase = "serving"
    /\ calls[c].pc = "idle"
    /\ calls' = [calls EXCEPT ![c] =
                    [Begin(c, "image_fs_info", None, "done") EXCEPT !.result = NotFound]]
    /\ UNCHANGED <<phase, images, clientLock, disk, interrupted>>

\* ------------------------------------------------------------------ pull_image

\* A pull that registers its image before persisting it and leaves the entry
\* behind when a later step fails.
PullFailKeepsEntry(c) ==
    /\ calls' = Finish(c, Internal)
    /\ clientLock' = {}
    /\ images' = IF calls[c].pc = "pull_fetch"
                 THEN images
                 ELSE MapPut(images, Unwrap(calls[c].image),
                             Image(calls[c].image_id, <<Unwrap(calls[c].image)>>, 0))
    /\ UNCHANGED <<phase, interrupted>>

\* An error path that returns without giving the client lock back.
PullFailKeepsLock(c) ==
    /\ calls' = Finish(c, Internal)
    /\ clientLock' = clientLock
    /\ UNCHANGED <<phase, images, interrupted>>

\* `?` on an Err after the client lock was taken: the guard is dropped, the
\* call answers Internal, and the index is not touched.
PullFail(c) ==
    /\ calls' = Finish(c, Internal)
    /\ clientLock' = {}
    /\ UNCHANGED <<phase, images, interrupted>>

\* An index keyed by the derived identifier instead of the reference.
InsertKeyById(call) == call.image_id

\* The key of images.insert(image_spec.image, image).
InsertKey(call) == Unwrap(call.image)

\* A record that also lists the other references under which the index
\* already holds the same identifier.
PulledImageMergedTags(call) ==
    LET others == {k \in DOMAIN images :
                      k # Unwrap(call.image) /\ images[k].id = call.image_id}
    IN  Image(call.image_id,
              IF others = {} THEN <<Unwrap(call.image)>>
                             ELSE <<CHOOSE k \in others : TRUE, Unwrap(call.image)>>,
              0)

\* The Image pull_image builds for the index.
PulledImage(call) == Image(call.image_id, <<Unwrap(call.image)>>, 0)

\* The CriusImage pull_image hands to save_image_metadata.
PulledMeta(call) == ImageMeta(call.image_id, <<Unwrap(call.image)>>, 0)

\* Layer files named by their order of arrival instead of their position.
SetLayerAppend(dir, n, file) == [dir EXCEPT !.layers = Append(@, file)]

\* std::fs::write to <n>.tar.gz changes file n (layers[n + 1]) of a directory.
SetLayer(dir, n, file) ==
    [dir EXCEPT !.layers = IF n + 1 <= Len(@) THEN [@ EXCEPT ![n + 1] = file]
                                              ELSE Append(@, file)]

\* The step after the i-th layer has been handled.
AfterLayer(call, i) ==
    IF i < Len(Unwrap(call.data).layers) THEN "pull_layer_open" ELSE "pull_meta_open"

\* let auth = req.auth.map(|a| RegistryAuth::Basic(..)).unwrap_or(Anonymous)
AuthOf(auth) ==
    IF IsSome(auth) THEN Basic(Unwrap(auth).username, Unwrap(auth).password)
                    ELSE Anonymous

\* The RegistryAuth argument of client.pull(..): the literal
\* RegistryAuth::Anonymous; the local `auth` is not used.
ClientPullAuth(call) == Anonymous

\* pull_image up to the client lock, for requests whose image is drawn from
\* inputs and whose auth is drawn from auths.
PullImageRequest(c, inputs, auths) ==
    /\ phase = "serving"
    /\ calls[c].pc = "idle"
    /\ \E image \in inputs, auth \in auths :
          calls' = [calls EXCEPT ![c] =
                       IF IsSome(image) /\ ParseReference(Unwrap(image))
                       THEN [Begin(c, "pull_image", image, "pull_lock_client")
                                EXCEPT !.auth = auth]
                       ELSE [Begin(c, "pull_image", image, "done")
                                EXCEPT !.result = InvalidArgument]]
    /\ UNCHANGED <<phase, images, clientLock, disk, interrupted>>

\* A PullImage request without auth.
PullImageCall(c) == PullImageRequest(c, PullInputs, {None})

\* A PullImage request for one reference, or without image spec.
PullImageCallOne(c) == PullImageRequest(c, {None, Some(TagT)}, {None})

\* A PullImage request with or without auth.
PullImageCallAuth(c) == PullImageRequest(c, PullInputs, AuthInputs)

\* A pull that goes on to the registry without waiting for the client lock.
PullImageNoLock(c) ==
    /\ phase = "serving"
    /\ calls[c].pc = "pull_lock_client"
    /\ clientLock' = clientLock \cup {c}
    /\ calls' = [calls EXCEPT ![c].pc = "pull_fetch",
                              ![c].registry_auth = Some(Anonymous)]
    /\ UNCHANGED <<phase, images, disk, interrupted>>

\* self.oci_client.lock().await, then client.pull(&reference, .., ..) is
\* called; the guard lives to the end of the function.
PullImageLockClient(c) ==
    /\ phase = "serving"
    /\ calls[c].pc = "pull_lock_client"
    /\ clientLock = {}
    /\ clientLock' = {c}
    /\ calls' = [calls EXCEPT ![c].pc = "pull_fetch",
                              ![c].registry_auth = Some(ClientPullAuth(calls[c]))]
    /\ UNCHANGED <<phase, images, disk, interrupted>>

\* A client guard that is dropped as soon as client.pull has answered.
ClientGuardDropped(lock) == {}

\* The guard `client` after client.pull(..).await has answered: it is a local
\* of pull_image and stays alive, so the lock stays with its holder.
ClientGuardKept(lock) == lock

\* client.pull(..).await fails.
PullImageFetchErr(c) ==
    /\ phase = "serving"
    /\ calls[c].pc = "pull_fetch"
    /\ PullFail(c)
    /\ UNCHANGED disk

\* client.pull(..).await answers; the identifier is derived from the digest.
\* expect() and the slice panic on a missing or short digest.
PullImageFetch(c, answers) ==
    /\ phase = "serving"
    /\ calls[c].pc = "pull_fetch"
    /\ \E data \in answers :
          IF IsSome(data.digest) /\ DigestSliceable(Unwrap(data.digest))
          THEN /\ calls' = [calls EXCEPT ![c].pc = "pull_mkdir",
                                         ![c].data = Some(data),
                                         ![c].image_id = ImageId(Unwrap(data.digest))]
               /\ clientLock' = ClientGuardKept(clientLock)
          ELSE /\ calls' = Finish(c, Panicked)
               /\ clientLock' = {}
    /\ UNCHANGED <<phase, images, disk, interrupted>>

\* client.pull answers with what the registry holds under the reference.
PullImageFetchOk(c) == PullImageFetch(c, Registry(Unwrap(calls[c].image)))

\* client.pull answers with the one-layer image or without digest.
PullImageFetchOne(c) == PullImageFetch(c, {ImageB, ImageN})

\* client.pull answers with any image of the larger registry.
PullImageFetchAll(c) == PullImageFetch(c, RegistryAll)

\* std::fs::create_dir_all(&image_dir)
PullImageMkdir(c) ==
    /\ phase = "serving"
    /\ calls[c].pc = "pull_mkdir"
    /\ \/ /\ disk' = IF calls[c].image_id \in DOMAIN disk
                     THEN disk
                     ELSE MapPut(disk, calls[c].image_id, NewDir)
          /\ calls' = [calls EXCEPT ![c].pc = AfterLayer(calls[c], 0), ![c].i = 0]
          /\ UNCHANGED <<phase, images, clientLock, interrupted>>
       \/ /\ PullFail(c)
          /\ UNCHANGED disk

\* std::fs::write(&layer_path, ..): the file is created or truncated.
PullImageLayerOpen(c) ==
    /\ phase = "serving"
    /\ calls[c].pc = "pull_layer_open"
    /\ \/ /\ disk' = [disk EXCEPT ![calls[c].image_id] =
                         SetLayer(@, calls[c].i, PartialFile)]
          /\ calls' = [calls EXCEPT ![c].pc = "pull_layer_write"]
          /\ UNCHANGED <<phase, images, clientLock, interrupted>>
       \/ /\ PullFail(c)
          /\ UNCHANGED disk

\* std::fs::write(&layer_path, ..): the bytes of the layer are written.
PullImageLayerWrite(c) ==
    /\ phase = "serving"
    /\ calls[c].pc = "pull_layer_write"
    /\ \/ /\ disk' = [disk EXCEPT ![calls[c].image_id] =
                         SetLayer(@, calls[c].i,
                                  FileOf(Unwrap(calls[c].data).layers[calls[c].i + 1]))]
          /\ calls' = [calls EXCEPT ![c].pc = AfterLayer(calls[c], calls[c].i + 1),
                                    ![c].i = calls[c].i + 1]
          /\ UNCHANGED <<phase, images, clientLock, interrupted>>
       \/ /\ PullFail(c)
          /\ UNCHANGED disk

\* save_image_metadata: std::fs::write(meta_path, ..) creates or truncates.
PullImageMetaOpen(c) ==
    /\ phase = "serving"
    /\ calls[c].pc = "pull_meta_open"
    /\ \/ /\ disk' = [disk EXCEPT ![calls[c].image_id].meta = PartialFile]
          /\ calls' = [calls EXCEPT ![c].pc = "pull_meta_write"]
          /\ UNCHANGED <<phase, images, clientLock, interrupted>>
       \/ /\ PullFail(c)
          /\ UNCHANGED disk

\* save_image_metadata: std::fs::write(meta_path, ..) writes the document.
PullImageMetaWrite(c) ==
    /\ phase = "serving"
    /\ calls[c].pc = "pull_meta_write"
    /\ \/ /\ disk' = [disk EXCEPT ![calls[c].image_id].meta = FileOf(PulledMeta(calls[c]))]
          /\ calls' = [calls EXCEPT ![c].pc = "pull_insert"]
          /\ UNCHANGED <<phase, images, clientLock, interrupted>>
       \/ /\ PullFail(c)
          /\ UNCHANGED disk

\* self.images.lock().await and images.insert(..); both guards are dropped at
\* the end of the function.
PullImageInsert(c) ==
    /\ phase = "serving"
    /\ calls[c].pc = "pull_insert"
    /\ ImagesLockFree
    /\ images' = MapPut(images, InsertKey(calls[c]), PulledImage(calls[c]))
    /\ calls' = Finish(c, Ok(calls[c].image_id))
    /\ clientLock' = {}
    /\ UNCHANGED <<phase, disk, interrupted>>

\* ------------------------------------------------------------------ system

Next ==
    \/ LoadLocalImagesOk
    \/ LoadLocalImagesErr
    \/ Serve
    \/ Terminate
    \/ Restart
    \/ \E c \in Calls :
        \/ ListImages(c)
        \/ ImageStatus(c)
        \/ RemoveImage(c)
        \/ ImageFsInfo(c)
        \/ PullImageCall(c)
        \/ PullImageLockClient(c)
        \/ PullImageFetchErr(c)
        \/ PullImageFetchOk(c)
        \/ PullImageMkdir(c)
        \/ PullImageLayerOpen(c)
        \/ PullImageLayerWrite(c)
        \/ PullImageMetaOpen(c)
        \/ PullImageMetaWrite(c)
        \/ PullImageInsert(c)
        \/ Return(c)

Spec == Init /\ [][Next]_vars

\* One client that pulls, one call at a time, with or without auth, from the
\* larger registry; the process is not terminated.
PullCalls == {1}

NextPull ==
    \/ LoadLocalImagesOk
    \/ Serve
    \/ \E c \in PullCalls :
        \/ PullImageCallAuth(c)
        \/ PullImageLockClient(c)
        \/ PullImageFetchErr(c)
        \/ PullImageFetchAll(c)
        \/ PullImageMkdir(c)
        \/ PullImageLayerOpen(c)
        \/ PullImageLayerWrite(c)
        \/ PullImageMetaOpen(c)
        \/ PullImageMetaWrite(c)
        \/ PullImageInsert(c)
        \/ Return(c)

SpecPull == Init /\ [][NextPull]_vars

\* list_images taken step by step under the images mutex, next to removals
\* and pulls; the process is not terminated.
NextList ==
    \/ LoadLocalImagesOk
    \/ Serve
    \/ \E c \in Calls :
        \/ ListImagesLock(c)
        \/ ListImagesCollect(c)
        \/ ListImagesReturn(c)
        \/ RemoveImage(c)
        \/ PullImageCall(c)
        \/ PullImageLockClient(c)
        \/ PullImageFetchErr(c)
        \/ PullImageFetchOk(c)
        \/ PullImageMkdir(c)
        \/ PullImageLayerOpen(c)
        \/ PullImageLayerWrite(c)
        \/ PullImageMetaOpen(c)
        \/ PullImageMetaWrite(c)
        \/ PullImageInsert(c)
        \/ Return(c)

SpecList == Init /\ [][NextList]_vars

\* Every call waits where the code awaits a lock: the four locking handlers
\* with their lock acquisitions as steps of their own; the process is not
\* terminated.

\* The steps in which call c is given a lock it awaits.
Acquire(c) ==
    \/ ListImagesLocked(c)
    \/ ImageStatusLocked(c)
    \/ RemoveImageLocked(c)
    \/ PullImageLockClient(c)
    \/ PullImageInsert(c)

\* The steps call c takes without awaiting a lock: collecting, the registry
\* answer, the disk operations.
Work(c) ==
    \/ ListImagesCollect(c)
    \/ ListImagesReturn(c)
    \/ PullImageFetchErr(c)
    \/ PullImageFetchOne(c)
    \/ PullImageMkdir(c)
    \/ PullImageLayerOpen(c)
    \/ PullImageLayerWrite(c)
    \/ PullImageMetaOpen(c)
    \/ PullImageMetaWrite(c)

NextLive ==
    \/ LoadLocalImagesOk
    \/ Serve
    \/ \E c \in Calls :
        \/ ListImagesCall(c)
        \/ ImageStatusCall(c)
        \/ RemoveImageCall(c)
        \/ PullImageCallOne(c)
        \/ Acquire(c)
        \/ Work(c)
        \/ Return(c)

\* Registry and disk operations terminate (weak fairness of Work); tokio's
\* Mutex hands the lock to its waiters in FIFO order, so a waiter for a lock
\* that is released again and again gets it (strong fairness of Acquire).
Fairness == \A c \in Calls : WF_vars(Work(c)) /\ SF_vars(Acquire(c))

SpecLive == Init /\ [][NextLive]_vars /\ Fairness

\* ------------------------------------------------------------------ claims

IdA == ImageId(DigestA)
IdB == ImageId(DigestB)

\* Call c takes a step in which its handler op returns.
Returns(c, op) ==
    /\ calls[c].pc # "done"
    /\ calls'[c].pc = "done"
    /\ calls'[c].op = op

\* C1: when PullImage(ref) returns Ok with identifier I, ImageStatus(ref) on the
\* index as the pull leaves it answers Ok with a record whose id is I.
C1_StatusAfterPull ==
    [][\A c \in Calls :
          Returns(c, "pull_image") /\ calls'[c].result.status = "Ok"
          => \A res \in ImageStatusResults(images', Unwrap(calls'[c].image)) :
                /\ res.status = "Ok"
                /\ Unwrap(res.value).id = Unwrap(calls'[c].result.value)]_vars

C1_Witness ==
    \E c \in Calls :
        /\ calls[c].op = "pull_image"
        /\ calls[c].pc = "done"
        /\ calls[c].result = Ok(IdA)
        /\ calls[c].image = Some(TagT)
        /\ ImageStatusResults(images, TagT) = {Ok(Image(IdA, <<TagT>>, 0))}

\* C2: after load_local_images has run on a fresh index, every directory whose
\* metadata.json was written by save_image_metadata is in the index under every
\* tag of its record, with the identical id, tag set and size; a second run of
\* load_local_images leaves the index unchanged.
C2_RoundTrip ==
    phase = "loaded"
    => /\ \A id \in DOMAIN disk :
            disk[id].meta.state = "written"
            => \A t \in TagsOf(Unwrap(disk[id].meta.content)) :
                  /\ t \in DOMAIN images
                  /\ images[t] = ImageOfMeta(Unwrap(disk[id].meta.content))
       /\ LoadInto(images, disk) = {images}

\* C3: when the process was terminated during a pull after a layer file had
\* been written and before metadata.json was written, the index that
\* load_local_images builds after the restart has no entry for the identifier
\* of that pull.
C3_NoEntryForInterruptedPull ==
    phase = "loaded" => \A k \in DOMAIN images : images[k].id \notin interrupted

C3_Witness ==
    /\ phase = "loaded"
    /\ \E id \in interrupted :
          /\ Len(disk[id].layers) >= 1
          /\ disk[id].layers[1].state = "written"
          /\ ~MetaExists(disk[id])
          /\ \A k \in DOMAIN images : images[k].id # id

\* The layer files of a directory are those of an image with this identifier,
\* each completely written.
LayersComplete(id) ==
    \E img \in {ImageA, ImageB} :
        /\ ImageId(Unwrap(img.digest)) = id
        /\ Len(disk[id].layers) = Len(img.layers)
        /\ \A n \in 1..Len(img.layers) : disk[id].layers[n] = FileOf(img.layers[n])

\* C4: a directory images/<id> that contains metadata.json contains every
\* layer file of that image, completely written.
C4_MetadataImpliesLayers ==
    \A id \in DOMAIN disk : MetaExists(disk[id]) => LayersComplete(id)

\* C5: a step of a PullImage call changes the index only if it is the step in
\* which the call returns Ok; a call that returns an error has left the index
\* as it was.
C5_FailedPullLeavesIndex ==
    [][\A c \in Calls :
          /\ calls'[c] # calls[c]
          /\ calls'[c].op = "pull_image"
          /\ ~(calls'[c].pc = "done" /\ calls'[c].result.status = "Ok")
          => images' = images]_vars

C5_Witness ==
    \E c \in Calls :
        /\ calls[c].op = "pull_image"
        /\ calls[c].pc = "done"
        /\ calls[c].result = Internal
        /\ calls[c].image = Some(TagT)
        /\ IdA \in DOMAIN disk
        /\ TagT \notin DOMAIN images

\* C6: RemoveImage(ref) with ref not a key of the index answers NotFound and
\* leaves the index unchanged.
C6_RemoveAbsent ==
    [][\A c \in Calls :
          /\ Returns(c, "remove_image")
          /\ IsSome(calls'[c].image)
          /\ Unwrap(calls'[c].image) \notin DOMAIN images
          => /\ calls'[c].result = NotFound
             /\ images' = images]_vars

C6_Witness ==
    \E c \in Calls :
        /\ calls[c].op = "remove_image"
        /\ calls[c].pc = "done"
        /\ calls[c].result = NotFound
        /\ calls[c].image = Some(TagT)
        /\ DOMAIN images = {TagS}

\* C7: RemoveImage(ref) with ref a key of the index answers Ok, removes the
\* entry keyed by ref and leaves every other entry as it was, the entries of
\* other references with the same image id included.
C7_RemovePresent ==
    [][\A c \in Calls :
          /\ Returns(c, "remove_image")
          /\ IsSome(calls'[c].image)
          /\ Unwrap(calls'[c].image) \in DOMAIN images
          => /\ calls'[c].result.status = "Ok"
             /\ DOMAIN images' = DOMAIN images \ {Unwrap(calls'[c].image)}
             /\ \A k \in DOMAIN images' : images'[k] = images[k]]_vars

C7_Witness ==
    \E c \in Calls :
        /\ calls[c].op = "remove_image"
        /\ calls[c].pc = "done"
        /\ calls[c].result.status = "Ok"
        /\ calls[c].image = Some(TagT)
        /\ DOMAIN images = {TagS}
        /\ images[TagS].id = IdA

\* The steps of pull_image between taking the registry client and returning.
InPullPhase(c) ==
    calls[c].pc \in {"pull_fetch", "pull_mkdir", "pull_layer_open", "pull_layer_write",
                     "pull_meta_open", "pull_meta_write", "pull_insert"}

\* C8: pulls of distinct references are not serialized: a pull that is about
\* to fetch is not held back by the pull of another reference, so that both
\* are in their fetch and persist phase at the same time.
C8_DistinctPullsConcurrent ==
    \A c \in Calls, d \in Calls :
        /\ calls[c].pc = "pull_lock_client"
        /\ InPullPhase(d)
        /\ calls[d].image # calls[c].image
        => ENABLED PullImageLockClient(c)

\* C9: ImageStatus(ref) answers the record under key ref when ref is a key;
\* otherwise a record whose id starts with ref when there is one; NotFound
\* exactly when ref is no key and no id starts with ref.
C9_StatusLookup ==
    [][\A c \in Calls :
          Returns(c, "image_status") /\ IsSome(calls'[c].image)
          => LET ref == Unwrap(calls'[c].image)
                 res == calls'[c].result
                 prefixed == \E k \in DOMAIN images : StartsWith(images[k].id, ref)
             IN  /\ ref \in DOMAIN images => res = Ok(images[ref])
                 /\ ref \notin DOMAIN images /\ prefixed
                    => /\ res.status = "Ok"
                       /\ \E k \in DOMAIN images :
                             /\ Unwrap(res.value) = images[k]
                             /\ StartsWith(images[k].id, ref)
                 /\ res = NotFound <=> (ref \notin DOMAIN images /\ ~prefixed)]_vars

C9_Witness ==
    \E c \in Calls :
        /\ calls[c].op = "image_status"
        /\ calls[c].pc = "done"
        /\ calls[c].image = Some(PrefixFull)
        /\ calls[c].result = Ok(Image(IdA, <<TagT>>, 0))
        /\ DOMAIN images = {TagT, TagS}
        /\ images[TagS].id = IdB

\* C10: with records sha256:abc123... and sha256:abc999... in the index,
\* ImageStatus with the hex prefix abc1 answers the record sha256:abc123....
C10_HexPrefixLookup ==
    [][\A c \in Calls :
          /\ Returns(c, "image_status")
          /\ calls'[c].image = Some(PrefixHex)
          /\ \E k \in DOMAIN images : images[k].id = IdA
          /\ \E k \in DOMAIN images : images[k].id = IdB
          => /\ calls'[c].result.status = "Ok"
             /\ Unwrap(calls'[c].result.value).id = IdA]_vars

\* C11: the answer of ImageStatus is determined by the set of index entries:
\* for every index the service reaches and every reference, two lookups on that
\* index (in one run or in two runs that hold the same entries) give the same
\* record, or both signal an error; no reference has two possible answers.
C11_PrefixLookupDeterministic ==
    phase = "serving"
    => \A image \in StatusInputs :
          IsSome(image)
          => Cardinality(ImageStatusResults(images, Unwrap(image))) = 1

IdD == Sha256Scheme \o <<"d","e","a","d","b","e","e","f","c","a","f","e">>

\* The hex part of a digest: what follows its sha256: scheme prefix.
HexPart(digest) ==
    IF StartsWith(digest, Sha256Scheme)
    THEN SubSeq(digest, Len(Sha256Scheme) + 1, Len(digest))
    ELSE digest

\* C12: when PullImage returns Ok, the identifier it returns is sha256:
\* followed by the first 12 characters of the hex part of the manifest digest
\* (sha256:deadbeefcafe for the digest sha256:deadbeefcafef00d), so it is a
\* function of the digest; the index entry of the reference and the
\* metadata.json of the directory named by the identifier carry the same id.
C12_PullIdentifier ==
    [][\A c \in Calls :
          Returns(c, "pull_image") /\ calls'[c].result.status = "Ok"
          => LET digest == Unwrap(Unwrap(calls[c].data).digest)
                 id     == Unwrap(calls'[c].result.value)
                 ref    == Unwrap(calls'[c].image)
             IN  /\ id = Sha256Scheme \o SubSeq(HexPart(digest), 1, 12)
                 /\ digest = DigestD => id = IdD
                 /\ ref \in DOMAIN images' /\ images'[ref].id = id
                 /\ id \in DOMAIN disk'
                 /\ disk'[id].meta.state = "written"
                 /\ Unwrap(disk'[id].meta.content).id = id]_vars

C12_Witness ==
    \E c \in Calls :
        /\ calls[c].op = "pull_image"
        /\ calls[c].pc = "done"
        /\ calls[c].result = Ok(IdD)
        /\ calls[c].image = Some(TagT)
        /\ images[TagT].id = IdD
        /\ disk[IdD].meta = FileOf(ImageMeta(IdD, <<TagT>>, 0))

\* The layer files (directory, position) that a step creates or changes.
LayerFilesTouched ==
    {f \in UNION {{<<id, n>> : n \in 1..Len(disk'[id].layers)} : id \in DOMAIN disk'} :
        \/ f[1] \notin DOMAIN disk
        \/ f[2] > Len(disk[f[1]].layers)
        \/ disk'[f[1]].layers[f[2]] # disk[f[1]].layers[f[2]]}

C14_InvalidReference ==
    [][\A c \in Calls :
          /\ Returns(c, "pull_image")
          /\ calls'[c].image = Some(EmptyStr)
          => /\ calls'[c].result = InvalidArgument
             /\ calls[c].pc = "idle"
             /\ calls'[c].registry_auth = None
             /\ UNCHANGED <<clientLock, disk, images>>]_vars

\* The malformed pull is answered while another pull holds the client lock
\* and the index and the disk are not empty.
C14_Witness ==
    \E c, d \in Calls :
        /\ calls[c].op = "pull_image"
        /\ calls[c].pc = "done"
        /\ calls[c].image = Some(EmptyStr)
        /\ calls[c].result = InvalidArgument
        /\ clientLock = {d}
        /\ DOMAIN images # {}
        /\ DOMAIN disk # {}

\* C15: the RegistryAuth that PullImage hands to client.pull is Basic with the
\* username and password of the request when the request carries auth, and
\* Anonymous when it carries none.
C15_CredentialsPassed ==
    \A c \in Calls :
        IsSome(calls[c].registry_auth)
        => Unwrap(calls[c].registry_auth) = AuthOf(calls[c].auth)

\* C16: load_local_images is not aborted by one image directory whose
\* metadata.json is missing, unreadable or does not parse: whatever the images
\* directory holds when main runs load_local_images, it can return success
\* (and main goes on to serve).
C16_LoadSkipsBadDirectory ==
    phase = "loading" => ENABLED LoadLocalImagesOk

\* C17: the endpoint starts accepting requests only from the state in which
\* load_local_images has returned, with the index that a complete scan of the
\* images directory leaves; and a call is accepted, advanced or answered only
\* while the endpoint is serving, never while main is still loading.
C17_LoadBeforeServe ==
    [][/\ phase' = "serving" /\ phase # "serving"
          => phase = "loaded" /\ images \in LoadInto(EmptyMap, disk)
       /\ \A c \in Calls :
             calls'[c] # calls[c] /\ calls'[c].op # "none"
             => phase = "serving" /\ phase' = "serving"]_vars

\* load_local_images has returned on a non-empty images directory and no
\* request has been accepted yet.
C17_Witness ==
    /\ phase = "loaded"
    /\ DOMAIN disk # {}
    /\ \E id \in DOMAIN disk : MetaExists(disk[id])
    /\ \A c \in Calls : calls[c] = Idle

\* C18: the list ListImages returns is the collection of all values of the
\* index as the index stands at the instant of the return, and the index does
\* not change between the call's taking the images mutex and its return, so
\* the list is the index at one instant and never a mixture of two index
\* states, while pulls and removals are in flight.
C18_ListSnapshot ==
    [][/\ \A c \in Calls :
             Returns(c, "list_images") => calls'[c].result = Ok(Values(images))
       /\ (\E c \in Calls : calls[c].pc = "list_collect") => images' = images]_vars

\* A list of two records has been returned while a pull whose insert would
\* change the index has persisted its image and waits to insert.
C18_Witness ==
    \E c, d \in Calls :
        /\ calls[c].op = "list_images"
        /\ calls[c].pc = "done"
        /\ DOMAIN images = {TagT, TagS}
        /\ calls[c].result = Ok(Values(images))
        /\ calls[d].pc = "pull_insert"
        /\ images[InsertKey(calls[d])] # PulledImage(calls[d])

\* The tags of the record a status answer carries, or of the records of a list.
TagsSeen(res, op) ==
    IF res.status # "Ok" THEN {}
    ELSE IF op = "image_status" THEN TagsOf(Unwrap(res.value))
    ELSE UNION {TagsOf(img) : img \in DOMAIN Unwrap(res.value)}

\* C19: while the service runs, a reference becomes a key of the index only
\* in the insert step of a PullImage of that reference, and at that step the
\* directory of the image holds every layer file and the metadata.json the
\* pull wrote; an ImageStatus or ListImages answer carries only records whose
\* tags are keys of the index, so no call sees a record for the reference of
\* a pull in flight before that step.
C19_VisibleAtInsertOnly ==
    [][/\ phase = "serving"
          => \A ref \in DOMAIN images' \ DOMAIN images :
                \E c \in Calls :
                   /\ calls[c].pc = "pull_insert"
                   /\ calls[c].image = Some(ref)
                   /\ calls'[c].result = Ok(calls[c].image_id)
                   /\ LET id     == calls[c].image_id
                          layers == Unwrap(calls[c].data).layers
                      IN  /\ id \in DOMAIN disk
                          /\ Len(disk[id].layers) >= Len(layers)
                          /\ \A n \in 1..Len(layers) :
                                disk[id].layers[n] = FileOf(layers[n])
                          /\ disk[id].meta = FileOf(PulledMeta(calls[c]))
       /\ \A c \in Calls :
             Returns(c, "image_status") \/ Returns(c, "list_images")
             => TagsSeen(calls'[c].result, calls'[c].op) \subseteq DOMAIN images]_vars

\* A pull of a reference that is not in the index has persisted its image
\* and not inserted yet; ImageStatus of the reference has answered NotFound
\* and the index holds another record.
C19_Witness ==
    \E c, d \in Calls :
        /\ calls[c].op = "pull_image"
        /\ calls[c].pc = "pull_insert"
        /\ calls[c].image = Some(TagT)
        /\ TagT \notin DOMAIN images
        /\ DOMAIN images = {TagS}
        /\ calls[d].op = "image_status"
        /\ calls[d].pc = "done"
        /\ calls[d].image = Some(TagT)
        /\ calls[d].result = NotFound

\* C20: of the PullImage calls of one reference, at most one at a time has
\* finished writing metadata.json and not yet inserted, so the calls insert in
\* the order in which they finished persisting and the entry left is that of
\* the call that persisted last; and at its insert the metadata.json of the
\* entry's directory is the document this same call wrote, so the index entry
\* and the on-disk metadata come from one pull.
C20_LastPersistedWins ==
    [][/\ \A c, d \in Calls :
             /\ c # d
             /\ calls[c].pc = "pull_insert"
             /\ calls[d].pc = "pull_insert"
             => calls[c].image # calls[d].image
       /\ \A c \in Calls :
             Returns(c, "pull_image") /\ calls'[c].result.status = "Ok"
             => LET ref == Unwrap(calls[c].image)
                    id  == calls[c].image_id
                IN  /\ disk[id].meta = FileOf(PulledMeta(calls[c]))
                    /\ images'[ref] = ImageOfMeta(Unwrap(disk'[id].meta.content))]_vars

\* Two pulls of one reference that resolved to different images have both
\* returned Ok; the entry is that of the second.
C20_Witness ==
    \E c, d \in Calls :
        /\ calls[c].op = "pull_image" /\ calls[d].op = "pull_image"
        /\ calls[c].image = Some(TagS) /\ calls[d].image = Some(TagS)
        /\ calls[c].pc = "done" /\ calls[d].pc = "done"
        /\ calls[c].result = Ok(IdA)
        /\ calls[d].result = Ok(IdB)
        /\ images[TagS] = Image(IdB, <<TagS>>, 0)
        /\ disk[IdB].meta = FileOf(ImageMeta(IdB, <<TagS>>, 0))
        /\ disk[IdA].meta = FileOf(ImageMeta(IdA, <<TagS>>, 0))

\* C21: ImageFsInfo answers with a filesystem-usage response, never with an
\* error status, whatever the index and the store hold (no step of the call
\* performs I/O that could fail).
C21_FsInfoNeverFails ==
    [][\A c \in Calls :
          Returns(c, "image_fs_info") => calls'[c].result.status = "Ok"]_vars

\* C22: in every state of the index, each record is reachable by every tag
\* of its own tag set: for an entry with record r and a tag t of r.repo_tags,
\* the index has an entry under key t whose id is r.id.
C22_ReachableByEveryTag ==
    \A k \in DOMAIN images :
        \A t \in TagsOf(images[k]) :
            t \in DOMAIN images /\ images[t].id = images[k].id

\* Two references were pulled to one identifier and one of them has been
\* removed; the other is still in the index.
C22_Witness ==
    \E c \in Calls :
        /\ calls[c].op = "remove_image"
        /\ calls[c].pc = "done"
        /\ calls[c].image = Some(TagT)
        /\ calls[c].result = Ok(None)
        /\ DOMAIN images = {TagS}
        /\ images[TagS] = Image(IdA, <<TagS>>, 0)
        /\ IdA \in DOMAIN disk
        /\ disk[IdA].meta.state = "written"

\* C23: when RemoveImage(ref) returns Ok and no entry left in the index
\* carries the identifier of the removed record, the directory images/<id> of
\* that identifier is gone from the disk; while another reference carries the
\* identifier, the directory is still there.
C23_RemoveReclaimsDirectory ==
    [][\A c \in Calls :
          Returns(c, "remove_image") /\ calls'[c].result.status = "Ok"
          => LET id == images[Unwrap(calls'[c].image)].id
             IN  IF \E k \in DOMAIN images' : images'[k].id = id
                 THEN id \in DOMAIN disk'
                 ELSE id \notin DOMAIN disk']_vars

\* C24: the index changes only in a step of load_local_images, in the insert
\* step of a PullImage that returns Ok, or in a RemoveImage that returns Ok
\* (and when the process ends and its memory is lost); a step of ListImages,
\* ImageStatus or ImageFsInfo changes neither the index nor the disk, whatever
\* it answers, and the answers of ListImages and ImageStatus are determined
\* by the index alone.
C24_ReadOnlyCalls ==
    [][/\ images' # images
          => \/ phase = "loading"
             \/ phase' = "exited"
             \/ \E c \in Calls :
                   /\ Returns(c, "pull_image") \/ Returns(c, "remove_image")
                   /\ calls'[c].result.status = "Ok"
       /\ \A c \in Calls :
             /\ calls'[c] # calls[c]
             /\ calls'[c].op \in {"list_images", "image_status", "image_fs_info"}
             => images' = images /\ disk' = disk
       /\ \A c \in Calls :
             Returns(c, "list_images") => calls'[c].result = Ok(Values(images))
       /\ \A c \in Calls :
             Returns(c, "image_status") /\ IsSome(calls'[c].image)
             => calls'[c].result \in ImageStatusResults(images, Unwrap(calls'[c].image))]_vars

\* ImageStatus has answered with a record found by a prefix of its id and
\* ImageFsInfo has answered, on an index and a disk that are not empty.
C24_Witness ==
    \E c, d \in Calls :
        /\ calls[c].op = "image_status"
        /\ calls[c].pc = "done"
        /\ calls[c].image = Some(PrefixAmbig)
        /\ calls[c].result.status = "Ok"
        /\ calls[d].op = "image_fs_info"
        /\ calls[d].pc = "done"
        /\ PrefixAmbig \notin DOMAIN images
        /\ DOMAIN images # {}
        /\ DOMAIN disk # {}

\* Call c is between its arrival and its answer.
InFlight(c) == calls[c].pc \notin {"idle", "done"}

\* Call c awaits a lock that another call holds.
Blocked(c) ==
    \/ calls[c].pc = "pull_lock_client" /\ clientLock # {}
    \/ /\ calls[c].pc \in {"list_lock", "status_lock", "remove_lock", "pull_insert"}
       /\ \E d \in Calls : d # c /\ calls[d].pc = "list_collect"

\* C25: the service does not deadlock: whenever calls are in flight, at least
\* one of them is not waiting for a lock and can take a step; the call that
\* holds the images mutex neither holds nor awaits the client lock; and, with
\* registry and disk operations that terminate and locks that are handed to
\* their waiters in turn, every call in flight eventually returns.
C25_DeadlockFree ==
    /\ [](\/ \A c \in Calls : ~InFlight(c)
          \/ \E c \in Calls : InFlight(c) /\ ~Blocked(c) /\ ENABLED (Acquire(c) \/ Work(c)))
    /\ [](\A c \in Calls :
             calls[c].pc = "list_collect"
             => c \notin clientLock /\ calls[c].op = "list_images")
    /\ \A c \in Calls : InFlight(c) ~> calls[c].pc = "done"

\* A pull holds the client lock and waits for the images mutex, which a
\* list_images holds while it collects.
C25_Witness ==
    \E c, d \in Calls :
        /\ calls[c].pc = "pull_insert"
        /\ clientLock = {c}
        /\ calls[d].pc = "list_collect"
        /\ Blocked(c)
        /\ ~Blocked(d)

\* C26: at most one PullImage call at a time is between its registry fetch
\* and its index insert, and it holds the client lock; every step that
\* changes the disk is a step of that call and changes only the directory of
\* the call's identifier, so from a pull's first write to its insert no other
\* pull writes to any image directory.
C26_PullWritesDoNotInterleave ==
    [][/\ \A c, d \in Calls : InPullPhase(c) /\ InPullPhase(d) => c = d
       /\ \A c \in Calls : InPullPhase(c) => clientLock = {c}
       /\ disk' # disk
          => \E c \in Calls :
                /\ InPullPhase(c)
                /\ calls'[c] # calls[c]
                /\ \A d \in Calls \ {c} : calls'[d] = calls[d]
                /\ \A id \in DOMAIN disk : id # calls[c].image_id => disk'[id] = disk[id]
                /\ DOMAIN disk' \subseteq DOMAIN disk \cup {calls[c].image_id}]_vars

\* A pull is writing the metadata of a directory while a pull of the same
\* reference waits for the client lock.
C26_Witness ==
    \E c, d \in Calls :
        /\ calls[c].pc = "pull_meta_write"
        /\ calls[c].image_id = IdA
        /\ disk[IdA].meta = PartialFile
        /\ calls[d].pc = "pull_lock_client"
        /\ calls[d].image = calls[c].image

\* The reference -> identifier mappings of an index.
Mappings(ix) == {<<k, ix[k].id>> : k \in DOMAIN ix}

\* C27: when the process stops with no call in flight, load_local_images on a
\* fresh index over the disk as the stop leaves it yields the reference ->
\* identifier mappings the index held before the stop.
C27_RestartPreservesIndex ==
    [][/\ phase = "serving"
       /\ phase' = "exited"
       /\ \A c \in Calls : calls[c].pc \in {"idle", "done"}
       => /\ \A id \in MetaRead(disk) : MetaParses(disk[id])
          /\ \A ix \in LoadInto(EmptyMap, disk) : Mappings(ix) = Mappings(images)]_vars

\* C28: ImageStatus, PullImage and RemoveImage answer a request without image
\* spec with InvalidArgument, leaving the index as it was; none of them
\* panics on such a request.
C28_AbsentImageSpec ==
    [][\A c \in Calls :
          /\ \/ Returns(c, "image_status")
             \/ Returns(c, "pull_image")
             \/ Returns(c, "remove_image")
          /\ calls'[c].image = None
          => /\ calls'[c].result = InvalidArgument
             /\ images' = images]_vars

====
